---- MODULE Spec2Model ----
(***************************************************************************)
(* ProgressPad (radiantsolutions-lab/progress-pad): the task table, the    *)
(* settings store and the request handlers of src/app.py over the models   *)
(* of src/models.py.                                                       *)
(*                                                                         *)
(* Encoding.  A text is a sequence of one-character strings.  A calendar   *)
(* date is its proleptic Gregorian ordinal (date.toordinal(), >= 1); the   *)
(* absent date (None) is 0.  An absent text (None) is NoneText.  A JSON    *)
(* object is a function from key to value.                                 *)
(***************************************************************************)
EXTENDS Integers, Sequences, FiniteSets, TLC

(***************************************************************************)
(* Texts                                                                   *)
(***************************************************************************)
NL == "\n"
SP == " "

\* None, for a column holding a text (db.Text, nullable)
NoneText == <<"<None>">>

\* None, for a column holding a short string (db.String, nullable)
None == "<None>"

\* None, for a db.Date column
NoDate == 0

IsWhitespace(c) == c \in {SP, NL}

RECURSIVE lstrip(_)
lstrip(t) ==
    IF t = <<>> THEN <<>>
    ELSE IF IsWhitespace(Head(t)) THEN lstrip(Tail(t)) ELSE t

RECURSIVE rstrip(_)
rstrip(t) ==
    IF t = <<>> THEN <<>>
    ELSE IF IsWhitespace(t[Len(t)]) THEN rstrip(SubSeq(t, 1, Len(t) - 1)) ELSE t

\* str.strip()
strip(t) == rstrip(lstrip(t))

\* Python truthiness of an optional text: None and '' are falsy
Truthy(t) == t # NoneText /\ t # <<>>

\* `x or ''`
OrEmpty(t) == IF Truthy(t) THEN t ELSE <<>>

\* t is the tail end of u
IsSuffix(t, u) ==
    /\ Len(t) <= Len(u)
    /\ SubSeq(u, Len(u) - Len(t) + 1, Len(u)) = t

IsPrefix(t, u) ==
    /\ Len(t) <= Len(u)
    /\ SubSeq(u, 1, Len(t)) = t

(***************************************************************************)
(* Calendar (datetime.date)                                                *)
(***************************************************************************)
IsLeap(y) == (y % 4 = 0) /\ ((y % 100 # 0) \/ (y % 400 = 0))

DaysInMonth(y, m) ==
    CASE m \in {1, 3, 5, 7, 8, 10, 12} -> 31
      [] m \in {4, 6, 9, 11} -> 30
      [] OTHER -> IF IsLeap(y) THEN 29 ELSE 28

DaysBeforeYear(y) ==
    (y - 1) * 365 + ((y - 1) \div 4) - ((y - 1) \div 100) + ((y - 1) \div 400)

RECURSIVE DaysBeforeMonth(_, _)
DaysBeforeMonth(y, m) ==
    IF m = 1 THEN 0 ELSE DaysBeforeMonth(y, m - 1) + DaysInMonth(y, m - 1)

\* date(y, m, d) raises ValueError unless this holds
ValidYmd(y, m, d) ==
    /\ y \in 1..9999
    /\ m \in 1..12
    /\ d \in 1..DaysInMonth(y, m)

\* date(y, m, d).toordinal()
ToOrdinal(y, m, d) == DaysBeforeYear(y) + DaysBeforeMonth(y, m) + d

\* date.fromordinal(n).year
YearOf(n) ==
    LET guess == (n * 400) \div 146097 + 1
    IN  IF DaysBeforeYear(guess) >= n THEN guess - 1
        ELSE IF DaysBeforeYear(guess + 1) < n THEN guess + 1
        ELSE guess

MonthOf(n) ==
    LET y == YearOf(n)
        r == n - DaysBeforeYear(y)
    IN  CHOOSE m \in 1..12 :
            /\ DaysBeforeMonth(y, m) < r
            /\ r <= DaysBeforeMonth(y, m) + DaysInMonth(y, m)

DayOf(n) ==
    LET y == YearOf(n)
    IN  n - DaysBeforeYear(y) - DaysBeforeMonth(y, MonthOf(n))

Digits == <<"0", "1", "2", "3", "4", "5", "6", "7", "8", "9">>

IsDigit(c) == \E i \in 1..10 : Digits[i] = c

DigitVal(c) == (CHOOSE i \in 1..10 : Digits[i] = c) - 1

DigitChar(v) == Digits[v + 1]

\* the digits of v, zero-padded to at least `width` characters (format spec 0<width>d)
RECURSIVE ZeroPad(_, _)
ZeroPad(v, width) ==
    IF v < 10 /\ width <= 1 THEN <<DigitChar(v)>>
    ELSE Append(ZeroPad(v \div 10, width - 1), DigitChar(v % 10))

\* int(text) of a run of digits; the caller checks the text is one
RECURSIVE DigitsVal(_)
DigitsVal(t) ==
    IF t = <<>> THEN 0
    ELSE DigitsVal(SubSeq(t, 1, Len(t) - 1)) * 10 + DigitVal(t[Len(t)])

AllDigits(t) == \A i \in 1..Len(t) : IsDigit(t[i])

\* date.isoformat() and strftime('%Y-%m-%d')
isoformat(n) ==
    ZeroPad(YearOf(n), 4) \o <<"-">> \o ZeroPad(MonthOf(n), 2) \o <<"-">> \o ZeroPad(DayOf(n), 2)

(***************************************************************************)
(* parse_date_flexible (src/app.py)                                        *)
(***************************************************************************)
\* the pieces of t between occurrences of the character sep
RECURSIVE SplitOn(_, _)
SplitOn(t, sep) ==
    IF \A i \in 1..Len(t) : t[i] # sep THEN <<t>>
    ELSE LET k == CHOOSE i \in 1..Len(t) : t[i] = sep /\ \A j \in 1..(i - 1) : t[j] # sep
         IN  <<SubSeq(t, 1, k - 1)>> \o SplitOn(SubSeq(t, k + 1, Len(t)), sep)

\* strptime directive %Y: exactly four digits
MatchY(f) == Len(f) = 4 /\ AllDigits(f)

\* strptime directive %m: 1[0-2]|0[1-9]|[1-9]
MatchM(f) == Len(f) \in {1, 2} /\ AllDigits(f) /\ DigitsVal(f) \in 1..12

\* strptime directive %d: 3[0-1]|[1-2]\d|0[1-9]|[1-9]| [1-9]
MatchD(f) ==
    \/ Len(f) \in {1, 2} /\ AllDigits(f) /\ DigitsVal(f) \in 1..31
    \/ Len(f) = 2 /\ f[1] = SP /\ IsDigit(f[2]) /\ f[2] # "0"

\* int() of a matched field (int() ignores the leading space %d admits)
FieldVal(f) == IF f[1] = SP THEN DigitsVal(Tail(f)) ELSE DigitsVal(f)

\* `formats` with the month-first pattern tried before the day-first one
formatsMonthFirst ==
    << [sep |-> "-", y |-> 1, m |-> 2, d |-> 3],
       [sep |-> "/", y |-> 3, m |-> 1, d |-> 2],
       [sep |-> "/", y |-> 3, m |-> 2, d |-> 1],
       [sep |-> "-", y |-> 3, m |-> 2, d |-> 1],
       [sep |-> "/", y |-> 1, m |-> 2, d |-> 3] >>

\* the list `formats`, in the order the loop tries them
formats ==
    << [sep |-> "-", y |-> 1, m |-> 2, d |-> 3],
       [sep |-> "/", y |-> 3, m |-> 2, d |-> 1],
       [sep |-> "/", y |-> 3, m |-> 1, d |-> 2],
       [sep |-> "-", y |-> 3, m |-> 2, d |-> 1],
       [sep |-> "/", y |-> 1, m |-> 2, d |-> 3] >>

\* datetime.strptime(text, fmt).date(): the ordinal, or NoDate where it raises ValueError
strptime(text, fmt) ==
    LET f == SplitOn(text, fmt.sep)
    IN  IF /\ Len(f) = 3
           /\ MatchY(f[fmt.y])
           /\ MatchM(f[fmt.m])
           /\ MatchD(f[fmt.d])
           /\ ValidYmd(FieldVal(f[fmt.y]), FieldVal(f[fmt.m]), FieldVal(f[fmt.d]))
        THEN ToOrdinal(FieldVal(f[fmt.y]), FieldVal(f[fmt.m]), FieldVal(f[fmt.d]))
        ELSE NoDate

\* the loop over `formats`: the first format that parses wins
RECURSIVE TryFormats(_, _)
TryFormats(text, i) ==
    IF i > Len(formats) THEN NoDate
    ELSE IF strptime(text, formats[i]) # NoDate THEN strptime(text, formats[i])
    ELSE TryFormats(text, i + 1)

\* ordinal of 1900-01-01, the `excel_epoch`
ExcelEpoch == ToOrdinal(1900, 1, 1)

\* largest ordinal a date can hold (date.max); beyond it timedelta addition raises
MaxOrdinal == ToOrdinal(9999, 12, 31)

\* a request value that is a JSON string
StrVal(t) == [isnum |-> FALSE, s |-> t, n |-> 0]

\* a request value that is a JSON integer
NumVal(k) == [isnum |-> TRUE, s |-> <<>>, n |-> k]

\* a request value that is absent (dict.get gives None)
NoVal == [isnum |-> FALSE, s |-> NoneText, n |-> 0]

\* str(date_str)
StrOf(v) ==
    IF ~v.isnum THEN v.s
    ELSE IF v.n < 0 THEN <<"-">> \o ZeroPad(0 - v.n, 1) ELSE ZeroPad(v.n, 1)

parse_date_flexible(date_str) ==
    IF (~date_str.isnum /\ ~Truthy(date_str.s)) \/ (date_str.isnum /\ date_str.n = 0)
    THEN NoDate
    ELSE IF TryFormats(StrOf(date_str), 1) # NoDate
    THEN TryFormats(StrOf(date_str), 1)
    ELSE IF date_str.isnum /\ (ExcelEpoch + date_str.n - 2) \in 1..MaxOrdinal
    THEN ExcelEpoch + date_str.n - 2
    ELSE NoDate

(***************************************************************************)
(* Bounds of the model                                                     *)
(***************************************************************************)
\* requests handled in one behaviour
MaxOps == 3

\* days the clock advances
MaxTicks == 1

(***************************************************************************)
(* State                                                                   *)
(***************************************************************************)
VARIABLES
    today,      \* the wall-clock date, datetime.today().date(), as an ordinal
    users,      \* table users: the set of User.id
    tasks,      \* table tasks: Task.id (a text) -> the row
    settings,   \* table app_settings: key -> value
    ops,        \* requests handled so far
    last,       \* the request handled last and its response
    inflight    \* worker -> the request it is in the middle of

vars == <<today, users, tasks, settings, ops, last, inflight>>

\* the workers that serve requests side by side
Workers == {1, 2}

\* a worker between two requests
Idle == [pc |-> "idle", op |-> "none", arg |-> <<>>, row |-> [id |-> <<>>], status |-> "none"]

\* first day of the model: 2025-02-28
Day0 == ToOrdinal(2025, 2, 28)

\* User.id of the account create_default_admin() makes
AdminId == 1

\* current_user of a request without a session (AnonymousUserMixin has no id)
Anonymous == 0

\* user_id of a Task built without one
NoUser == 0

\* digits the numeric part of a generated id is padded to (format spec 03d)
IdWidth == 3

T(n) == <<"T">> \o ZeroPad(n, IdWidth)

(***************************************************************************)
(* Task (src/models.py)                                                    *)
(***************************************************************************)
\* a JSON object as a function; Get is dict.get(key, default)
Has(d, k) == k \in DOMAIN d

Get(d, k, default) == IF Has(d, k) THEN d[k] ELSE default

EmptyDict == [k \in {} |-> None]

\* custom_fields: <<>> is None, <<d>> is the dict d
NoCustom == <<>>

CustomDict(cf) == IF cf = <<>> THEN EmptyDict ELSE cf[1]

\* dict.update: the keys of e override those of d
Update(d, e) == [k \in (DOMAIN d) \cup (DOMAIN e) |-> IF k \in DOMAIN e THEN e[k] ELSE d[k]]

\* date.isoformat() if the date is set, else None
IsoOrNone(d) == IF d # NoDate THEN isoformat(d) ELSE NoneText

to_dict(t, now) ==
    LET result ==
            [k \in {"ID", "Type", "Product", "Module", "Description", "Status", "Priority",
                    "Created Date", "Due Date", "Status Update Date", "Action Plan Status",
                    "Current Action Plan", "Action Plan History", "Category", "Requester",
                    "Business Unit", "is_overdue", "due_soon", "due_today"} |->
                CASE k = "ID" -> t.id
                  [] k = "Type" -> t.type
                  [] k = "Product" -> t.product
                  [] k = "Module" -> t.module
                  [] k = "Description" -> t.description
                  [] k = "Status" -> t.status
                  [] k = "Priority" -> t.priority
                  [] k = "Created Date" -> IsoOrNone(t.created_date)
                  [] k = "Due Date" -> IsoOrNone(t.due_date)
                  [] k = "Status Update Date" -> IsoOrNone(t.status_update_date)
                  [] k = "Action Plan Status" -> t.action_plan_status
                  [] k = "Current Action Plan" -> t.current_action_plan
                  [] k = "Action Plan History" -> t.action_plan_history
                  [] k = "Category" -> t.category
                  [] k = "Requester" -> t.requester
                  [] k = "Business Unit" -> t.business_unit
                  [] OTHER -> FALSE]
        withCustom ==
            IF DOMAIN CustomDict(t.custom_fields) # {}
            THEN Update(result, CustomDict(t.custom_fields))
            ELSE result
        flag ==
            IF t.due_date # NoDate /\ t.status # "Completed"
            THEN IF t.due_date < now THEN {"is_overdue"}
                 ELSE IF t.due_date = now THEN {"due_today"}
                 ELSE IF t.due_date - now <= 3 THEN {"due_soon"}
                 ELSE {}
            ELSE {}
    IN  [k \in DOMAIN withCustom |-> IF k \in flag THEN TRUE ELSE withCustom[k]]

(***************************************************************************)
(* AppSettings (src/models.py) and the settings functions (src/app.py)     *)
(***************************************************************************)
\* a stored JSON value that is a list (list is FALSE, and scalar holds the
\* value, for one that is not)
List(items) == [list |-> TRUE, items |-> items, scalar |-> None]

\* an element of custom_columns: the bare string name, or an object with a
\* name and, unless type = None, a type
BareCol(name) == [isstr |-> TRUE, name |-> name, type |-> None]

Col(name, type) == [isstr |-> FALSE, name |-> name, type |-> type]

\* AppSettings.set_setting(key, value) applied to the store st
set_setting(st, key, value) ==
    [k \in (DOMAIN st) \cup {key} |-> IF k = key THEN value ELSE st[k]]

\* the dict `defaults` of load_settings, as the list of its items
defaults ==
    << <<"status_options",
         List(<<"Not Started", "In Progress", "Completed", "Pending from User", "On Hold">>)>>,
       <<"type_options", List(<<"Bug", "Feature", "Task">>)>>,
       <<"priority_options", List(<<"Low", "Medium", "High", "Critical">>)>>,
       <<"product_options", List(<<"Finance", "Procurement", "OIC", "ROSS", "E-Invoice">>)>>,
       <<"module_options",
         List(<<"Authentication", "Dashboard", "Reports", "Settings", "User Management",
                "Task Management">>)>> >>

\* StoreDefaults writing every default, also over a key that is stored
RECURSIVE StoreDefaultsOverwriting(_, _)
StoreDefaultsOverwriting(st, i) ==
    IF i > Len(defaults) THEN st
    ELSE StoreDefaultsOverwriting(set_setting(st, defaults[i][1], defaults[i][2]), i + 1)

\* the store after the loop that persists each missing default
RECURSIVE StoreDefaults(_, _)
StoreDefaults(st, i) ==
    IF i > Len(defaults) THEN st
    ELSE IF defaults[i][1] \in DOMAIN st THEN StoreDefaults(st, i + 1)
    ELSE StoreDefaults(set_setting(st, defaults[i][1], defaults[i][2]), i + 1)

\* the store load_settings() leaves behind
LoadedStore(st) ==
    LET withDefaults == StoreDefaults(st, 1)
    IN  IF "custom_columns" \notin DOMAIN withDefaults
        THEN set_setting(withDefaults, "custom_columns", List(<<>>))
        ELSE withDefaults

\* the mapping load_settings() returns
load_settings(st) ==
    LET stored == LoadedStore(st)
        cc == stored["custom_columns"]
    IN  IF cc.list
        THEN [stored EXCEPT !["custom_columns"] =
                List([i \in 1..Len(cc.items) |->
                        IF cc.items[i].isstr THEN Col(cc.items[i].name, "text")
                        ELSE cc.items[i]])]
        ELSE stored

\* the data save_settings writes: custom_columns normalised, or added as []
NormalizedSave(data) ==
    IF "custom_columns" \notin DOMAIN data
    THEN Update(data, [k \in {"custom_columns"} |-> List(<<>>)])
    ELSE IF data["custom_columns"].list
    THEN [data EXCEPT !["custom_columns"] =
            List([i \in 1..Len(data["custom_columns"].items) |->
                    LET col == data["custom_columns"].items[i]
                    IN  IF ~col.isstr
                        THEN Col(col.name, IF col.type = None THEN "text" ELSE col.type)
                        ELSE Col(col.name, "text")])]
    ELSE data

\* the store after save_settings(data): every key of the data is upserted
SavedStore(st, data) == Update(st, NormalizedSave(data))

\* [col['name'] for col in settings.get('custom_columns', [])]
CustomColumnNames(loaded) ==
    {loaded["custom_columns"].items[i].name : i \in 1..Len(loaded["custom_columns"].items)}

(***************************************************************************)
(* The tasks table                                                         *)
(***************************************************************************)
\* characters in the order the database compares them in ORDER BY
Collation == Digits \o <<"T">>

CharRank(c) == CHOOSE i \in 1..Len(Collation) : Collation[i] = c

\* the greatest, in the order of ORDER BY, of the texts of S, which agree on
\* their first i - 1 characters: a text sorts after its proper prefixes, and
\* texts that differ first at character i sort as those characters do
RECURSIVE LexMax(_, _)
LexMax(S, i) ==
    LET longer == {a \in S : Len(a) >= i}
    IN  IF longer = {} THEN CHOOSE a \in S : TRUE
        ELSE LET top == CHOOSE r \in 1..Len(Collation) :
                            /\ \E a \in longer : CharRank(a[i]) = r
                            /\ \A a \in longer : CharRank(a[i]) <= r
             IN  LexMax({a \in longer : CharRank(a[i]) = top}, i + 1)

\* Task.query.order_by(Task.id.desc()).first().id, for a table that has rows
LastId(tb) == LexMax(DOMAIN tb, 1)

\* the `next_id` of add_task
NextId(tb) ==
    LET count == Cardinality(DOMAIN tb)
    IN  IF DOMAIN tb # {} /\ Head(LastId(tb)) = "T"
        THEN IF Len(LastId(tb)) > 1 /\ AllDigits(Tail(LastId(tb)))
             THEN <<"T">> \o ZeroPad(DigitsVal(Tail(LastId(tb))) + 1, IdWidth)
             ELSE <<"T">> \o ZeroPad(count + 1, IdWidth)
        ELSE <<"T">> \o ZeroPad(count + 1, IdWidth)

\* the row Task(...) of add_task
NewTask(next_id, data, custom_fields, user, now) ==
    [ id |-> next_id,
      type |-> Get(data, "Type", None),
      product |-> Get(data, "Product", None),
      module |-> Get(data, "Module", None),
      description |-> Get(data, "Description", None),
      \* a status of None is left to the column default on INSERT
      status |-> IF Get(data, "Status", None) = None THEN "Not Started" ELSE data["Status"],
      priority |-> Get(data, "Priority", None),
      created_date |-> parse_date_flexible(Get(data, "Created Date", StrVal(isoformat(now)))),
      due_date |-> parse_date_flexible(Get(data, "Due Date", NoVal)),
      status_update_date |-> NoDate,
      action_plan_status |-> None,
      current_action_plan |-> Get(data, "Current Action Plan", NoneText),
      action_plan_history |->
          IF Truthy(Get(data, "Current Action Plan", NoneText))
          THEN <<"[">> \o isoformat(now) \o <<"]", NL>> \o strip(data["Current Action Plan"])
          ELSE <<>>,
      category |-> None,
      requester |-> None,
      business_unit |-> None,
      custom_fields |-> IF DOMAIN custom_fields # {} THEN <<custom_fields>> ELSE NoCustom,
      user_id |-> user ]

\* db.session.commit() of new rows: the primary key is unique and user_id is NOT NULL
CanInsert(tb, rows) ==
    /\ \A i \in 1..Len(rows) : rows[i].user_id # NoUser /\ rows[i].id \notin DOMAIN tb
    /\ \A i, j \in 1..Len(rows) : i # j => rows[i].id # rows[j].id

Insert(tb, rows) ==
    [k \in (DOMAIN tb) \cup {rows[i].id : i \in 1..Len(rows)} |->
        IF k \in DOMAIN tb THEN tb[k] ELSE rows[CHOOSE i \in 1..Len(rows) : rows[i].id = k]]

\* Task.query.filter_by(id=row_id).first(): is there such a row
Found(tb, id) == id \in DOMAIN tb

\* no row: what a lookup that finds nothing gives
NoRow == [id |-> <<>>]

\* the request handled and its response: the handler, the task id it names, the
\* outcome ("success", a structured "error", or the exception that escapes), the
\* request body, and the row the lookup found as it was before the request
Response(op, id, status, arg, before) ==
    [op |-> op, id |-> id, status |-> status, arg |-> arg, before |-> before]

(***************************************************************************)
(* Requests the model sends                                                *)
(***************************************************************************)
\* ids named by delete_task and restore_task requests
RequestIds == {T(1), T(2), T(1000)}

\* ids named by edit_task, update_action_plan and standup_update_action_plan requests
EditIds == {T(1), T(1000)}

\* new_action_plan texts
PlanTexts == { <<SP, "a">>, <<SP>> }

\* request bodies of /add_task: an empty form; a completed task due on
\* 2025-02-28; a task due on 04/03/2025 (DD/MM/YYYY) with a blank plan
AddRequests ==
    { EmptyDict,
      ("Status" :> "Completed") @@ ("Due Date" :> StrVal(isoformat(Day0)))
          @@ ("Current Action Plan" :> <<"b", SP>>) @@ ("is_overdue" :> TRUE),
      ("Due Date" :> StrVal(<<"0", "4", "/", "0", "3", "/", "2", "0", "2", "5">>))
          @@ ("Current Action Plan" :> <<SP>>) @@ ("is_overdue" :> TRUE) }

\* request bodies of /edit_task (beside the ID)
EditRequests ==
    { ("Status" :> None),
      ("Status" :> "In Progress") @@ ("Action Plan History" :> <<>>),
      ("Type" :> "Bug") @@ ("Due Date" :> StrVal(isoformat(Day0))) @@ ("is_overdue" :> FALSE) }

\* request bodies of POST /settings
SaveRequests ==
    { ("custom_columns" :> List(<<BareCol("is_overdue")>>)),
      ("status_options" :> List(<<"Open", "Completed">>)) }

\* request bodies of POST /settings that give custom_columns each shape a
\* client can send (bare strings, objects with and without a type, a mixed
\* list, a value that is not a list), and ones that set option lists
ColumnRequests ==
    { ("custom_columns" :> List(<<BareCol("Owner")>>)),
      ("custom_columns" :> List(<<Col("Owner", "number")>>)),
      ("custom_columns" :> List(<<Col("Owner", None)>>)),
      ("custom_columns" :> List(<<BareCol("Owner"), Col("Team", "date")>>)),
      ("custom_columns" :> [list |-> FALSE, items |-> <<>>, scalar |-> "Owner"]),
      ("priority_options" :> List(<<"P1">>)),
      ("status_options" :> List(<<"Open", "Completed">>))
          @@ ("custom_columns" :> List(<<BareCol("Team")>>)),
      ("type_options" :> List(<<>>)) }

\* uploads: the file name passes the .csv test or not; the rows of the file
ImportFiles ==
    { [csv |-> FALSE, rows |-> <<>>],
      [csv |-> TRUE, rows |-> <<>>],
      [csv |-> TRUE, rows |-> << ("ID" :> T(7)) @@ ("Status" :> "Completed") >>] }

(***************************************************************************)
(* Handlers (src/app.py)                                                   *)
(***************************************************************************)
Init ==
    /\ today = Day0
    /\ users = {AdminId}
    /\ tasks = [k \in {} |-> None]
    /\ settings = [k \in {} |-> None]
    /\ ops = 0
    /\ inflight = [w \in Workers |-> Idle]
    /\ last = Response("start", <<>>, "success", <<>>, NoRow)

\* the clock passes midnight
Tick ==
    /\ today < Day0 + MaxTicks
    /\ today' = today + 1
    /\ UNCHANGED <<users, tasks, settings, ops, last, inflight>>

\* POST /register with a user name and an e-mail not yet taken
register ==
    /\ ops < MaxOps
    /\ ops' = ops + 1
    /\ users' = users \cup {1 + CHOOSE m \in users : \A u \in users : u <= m}
    /\ last' = Response("register", <<>>, "success", <<>>, NoRow)
    /\ UNCHANGED <<today, tasks, settings, inflight>>

\* the rows Task.query.filter_by(user_id=user_id) matches
OwnedRows(tb, user_id) == {k \in DOMAIN tb : tb[k].user_id = user_id}

\* the response of admin_delete_user: the user named in the URL and the ids of
\* the tasks that user owned when the request arrived
DeleteUserResponse(status, user_id) ==
    Response("admin_delete_user", <<>>, status, user_id,
             [id |-> <<>>, tasks |-> OwnedRows(tasks, user_id)])

\* admin_delete_user without the bulk delete of the user's tasks
admin_delete_user_keeps_tasks ==
    \E user_id \in users :
        /\ ops < MaxOps
        /\ ops' = ops + 1
        /\ IF AdminId = user_id
           THEN /\ UNCHANGED <<users, tasks>>
                /\ last' = DeleteUserResponse("error", user_id)
           ELSE /\ tasks' = tasks
                /\ users' = users \ {user_id}
                /\ last' = DeleteUserResponse("success", user_id)
        /\ UNCHANGED <<today, settings, inflight>>

\* POST /admin/delete_user/<user_id> by the logged-in admin
admin_delete_user ==
    \E user_id \in users :
        /\ ops < MaxOps
        /\ ops' = ops + 1
        /\ IF AdminId = user_id
           THEN /\ UNCHANGED <<users, tasks>>
                /\ last' = DeleteUserResponse("error", user_id)
           ELSE /\ tasks' = [k \in (DOMAIN tasks) \ OwnedRows(tasks, user_id) |-> tasks[k]]
                /\ users' = users \ {user_id}
                /\ last' = DeleteUserResponse("success", user_id)
        /\ UNCHANGED <<today, settings, inflight>>

\* POST /add_task
add_new_task ==
    \E current_user \in users \cup {Anonymous}, data \in AddRequests :
        LET loaded == load_settings(settings)
            next_id == NextId(tasks)
            cols == CustomColumnNames(loaded) \cap DOMAIN data
            custom_fields == [col \in cols |-> data[col]]
            task == NewTask(next_id, data, custom_fields, current_user, today)
        IN  /\ ops < MaxOps
            /\ ops' = ops + 1
            /\ settings' = LoadedStore(settings)
            /\ IF current_user # Anonymous /\ CanInsert(tasks, <<task>>)
               THEN /\ tasks' = Insert(tasks, <<task>>)
                    /\ last' = Response("add_task", next_id, "success", data, NoRow)
               ELSE /\ tasks' = tasks
                    /\ last' = Response("add_task", next_id,
                                        IF current_user = Anonymous THEN "AttributeError"
                                        ELSE "IntegrityError", <<>>, NoRow)
            /\ UNCHANGED <<today, users, inflight>>

\* DirectHistory with the new entry put after the transcript instead of before it
DirectHistoryOldestFirst(history, new_plan, now) ==
    strip(OrEmpty(history) \o <<NL, NL, "[">> \o isoformat(now) \o <<"]", NL>>
          \o strip(new_plan) \o <<NL>>)

\* the history update_action_plan writes
DirectHistory(history, new_plan, now) ==
    strip(<<"[">> \o isoformat(now) \o <<"]", NL>> \o strip(new_plan) \o <<NL>>
          \o <<NL>> \o OrEmpty(history))

\* POST /update_action_plan
update_action_plan ==
    \E id \in EditIds, text \in PlanTexts :
        LET row_id == strip(id)
            new_plan == strip(text)
        IN  /\ ops < MaxOps
            /\ ops' = ops + 1
            /\ IF Found(tasks, row_id)
               THEN /\ tasks' = [tasks EXCEPT
                            ![row_id].current_action_plan = new_plan,
                            ![row_id].action_plan_history =
                                DirectHistory(tasks[row_id].action_plan_history, new_plan, today)]
                    /\ last' = Response("update_action_plan", row_id, "success", text, tasks[row_id])
               ELSE /\ tasks' = tasks
                    /\ last' = Response("update_action_plan", row_id, "error", text, NoRow)
            /\ UNCHANGED <<today, users, settings, inflight>>

\* StandupHistory without the test that there is an outgoing plan to archive
StandupHistoryUnguarded(history, current_plan, now) ==
    strip(<<"[", "S", "T", "A", "N", "D", "U", "P", SP>> \o isoformat(now) \o <<"]", NL>>
          \o strip(OrEmpty(current_plan)) \o <<NL, NL>> \o OrEmpty(history))

\* the history standup_update_action_plan leaves
StandupHistory(history, current_plan, now) ==
    IF strip(OrEmpty(current_plan)) # <<>>
    THEN LET standup_entry ==
                <<"[", "S", "T", "A", "N", "D", "U", "P", SP>> \o isoformat(now) \o <<"]", NL>>
                \o strip(OrEmpty(current_plan)) \o <<NL>>
         IN  IF OrEmpty(history) # <<>>
             THEN strip(standup_entry \o <<NL>> \o OrEmpty(history))
             ELSE strip(standup_entry)
    ELSE history

\* POST /standup_update_action_plan
standup_update_action_plan ==
    \E id \in EditIds, text \in PlanTexts :
        LET row_id == strip(id)
            new_plan == strip(text)
        IN  /\ ops < MaxOps
            /\ ops' = ops + 1
            /\ IF Found(tasks, row_id)
               THEN /\ tasks' = [tasks EXCEPT
                            ![row_id].action_plan_history =
                                StandupHistory(tasks[row_id].action_plan_history,
                                               tasks[row_id].current_action_plan, today),
                            ![row_id].current_action_plan = new_plan]
                    /\ last' = Response("standup_update_action_plan", row_id, "success", text, tasks[row_id])
               ELSE /\ tasks' = tasks
                    /\ last' = Response("standup_update_action_plan", row_id, "error", text, NoRow)
            /\ UNCHANGED <<today, users, settings, inflight>>

\* delete_task removing the row instead of marking it
delete_task_hard ==
    \E id \in RequestIds :
        LET task_id == strip(id)
        IN  /\ ops < MaxOps
            /\ ops' = ops + 1
            /\ IF Found(tasks, task_id)
               THEN /\ tasks' = [k \in (DOMAIN tasks) \ {task_id} |-> tasks[k]]
                    /\ last' = Response("delete_task", task_id, "success", <<>>, tasks[task_id])
               ELSE /\ tasks' = tasks
                    /\ last' = Response("delete_task", task_id, "error", <<>>, NoRow)
            /\ UNCHANGED <<today, users, settings, inflight>>

\* POST /delete_task
delete_task ==
    \E id \in RequestIds :
        LET task_id == strip(id)
        IN  /\ ops < MaxOps
            /\ ops' = ops + 1
            /\ IF Found(tasks, task_id)
               THEN /\ tasks' = [tasks EXCEPT ![task_id].status = "Deleted"]
                    /\ last' = Response("delete_task", task_id, "success", <<>>, tasks[task_id])
               ELSE /\ tasks' = tasks
                    /\ last' = Response("delete_task", task_id, "error", <<>>, NoRow)
            /\ UNCHANGED <<today, users, settings, inflight>>

\* restore_task looking the task up by id alone, whatever its status
restore_task_any ==
    \E id \in RequestIds :
        LET task_id == strip(id)
        IN  /\ ops < MaxOps
            /\ ops' = ops + 1
            /\ IF Found(tasks, task_id)
               THEN /\ tasks' = [tasks EXCEPT ![task_id].status = "Not Started"]
                    /\ last' = Response("restore_task", task_id, "success", <<>>, tasks[task_id])
               ELSE /\ tasks' = tasks
                    /\ last' = Response("restore_task", task_id, "error", <<>>, NoRow)
            /\ UNCHANGED <<today, users, settings, inflight>>

\* POST /restore_task
restore_task ==
    \E id \in RequestIds :
        LET task_id == strip(id)
        IN  /\ ops < MaxOps
            /\ ops' = ops + 1
            /\ IF Found(tasks, task_id) /\ tasks[task_id].status = "Deleted"
               THEN /\ tasks' = [tasks EXCEPT ![task_id].status = "Not Started"]
                    /\ last' = Response("restore_task", task_id, "success", <<>>, tasks[task_id])
               ELSE /\ tasks' = tasks
                    /\ last' = Response("restore_task", task_id, "error", <<>>, NoRow)
            /\ UNCHANGED <<today, users, settings, inflight>>

\* the row `task` after the assignments of edit_task
EditedTask(t, data, custom_columns) ==
    [ id |-> t.id,
      type |-> Get(data, "Type", t.type),
      product |-> Get(data, "Product", t.product),
      module |-> Get(data, "Module", t.module),
      description |-> Get(data, "Description", t.description),
      status |-> Get(data, "Status", t.status),
      priority |-> Get(data, "Priority", t.priority),
      created_date |->
          IF Has(data, "Created Date") THEN parse_date_flexible(data["Created Date"])
          ELSE t.created_date,
      due_date |->
          IF Has(data, "Due Date") THEN parse_date_flexible(data["Due Date"]) ELSE t.due_date,
      status_update_date |->
          IF Has(data, "Status Update Date") THEN parse_date_flexible(data["Status Update Date"])
          ELSE t.status_update_date,
      action_plan_status |-> Get(data, "Action Plan Status", t.action_plan_status),
      current_action_plan |-> Get(data, "Current Action Plan", t.current_action_plan),
      action_plan_history |-> Get(data, "Action Plan History", t.action_plan_history),
      category |-> Get(data, "Category", t.category),
      requester |-> t.requester,
      business_unit |-> t.business_unit,
      \* a falsy custom_fields is replaced by a new dict, which the session then
      \* writes with the items put into it; a non-empty one is changed in place,
      \* which the plain JSON column does not notice, so the commit writes nothing
      custom_fields |->
          IF DOMAIN CustomDict(t.custom_fields) = {}
          THEN << [col \in custom_columns \cap DOMAIN data |-> data[col]] >>
          ELSE t.custom_fields,
      user_id |-> t.user_id ]

\* edit_task loading the settings before it looks the task up
edit_task_loads_first ==
    \E id \in EditIds, data \in EditRequests :
        LET task_id == strip(id)
        IN  /\ ops < MaxOps
            /\ ops' = ops + 1
            /\ settings' = LoadedStore(settings)
            /\ IF ~Found(tasks, task_id)
               THEN /\ last' = Response("edit_task", task_id, "error", <<>>, NoRow)
                    /\ UNCHANGED tasks
               ELSE /\ tasks' = [tasks EXCEPT ![task_id] =
                            EditedTask(tasks[task_id], data,
                                       CustomColumnNames(load_settings(settings)))]
                    /\ last' = Response("edit_task", task_id, "success", data, tasks[task_id])
            /\ UNCHANGED <<today, users, inflight>>

\* POST /edit_task
edit_task ==
    \E id \in EditIds, data \in EditRequests :
        LET task_id == strip(id)
        IN  /\ ops < MaxOps
            /\ ops' = ops + 1
            /\ IF ~Found(tasks, task_id)
               THEN /\ last' = Response("edit_task", task_id, "error", <<>>, NoRow)
                    /\ UNCHANGED <<tasks, settings>>
               ELSE /\ settings' = LoadedStore(settings)
                    /\ tasks' = [tasks EXCEPT ![task_id] =
                            EditedTask(tasks[task_id], data,
                                       CustomColumnNames(load_settings(settings)))]
                    /\ last' = Response("edit_task", task_id, "success", data, tasks[task_id])
            /\ UNCHANGED <<today, users, inflight>>

\* the row Task(...) of import_csv
ImportedTask(row) ==
    [ id |-> strip(Get(row, "ID", <<>>)),
      type |-> Get(row, "Type", None),
      product |-> Get(row, "Product", None),
      module |-> Get(row, "Module", None),
      description |-> Get(row, "Description", None),
      status |-> Get(row, "Status", "Not Started"),
      priority |-> Get(row, "Priority", None),
      created_date |-> parse_date_flexible(StrVal(Get(row, "Created Date", NoneText))),
      due_date |-> parse_date_flexible(StrVal(Get(row, "Due Date", NoneText))),
      status_update_date |->
          parse_date_flexible(StrVal(Get(row, "Status Update Date", NoneText))),
      action_plan_status |-> Get(row, "Action Plan Status", None),
      current_action_plan |-> Get(row, "Current Action Plan", NoneText),
      action_plan_history |-> Get(row, "Action Plan History", NoneText),
      category |-> Get(row, "Category", None),
      requester |-> None,
      business_unit |-> None,
      custom_fields |-> NoCustom,
      user_id |-> NoUser ]

\* POST /import_csv: every row of every user is deleted and that is committed
\* before the rows of the file are added and committed
import_csv ==
    \E file \in ImportFiles :
        LET cleared == [k \in {} |-> None]
            rows == [i \in 1..Len(file.rows) |-> ImportedTask(file.rows[i])]
        IN  /\ ops < MaxOps
            /\ ops' = ops + 1
            /\ IF ~file.csv
               THEN /\ tasks' = tasks
                    /\ last' = Response("import_csv", <<>>, "error", file, NoRow)
               ELSE IF CanInsert(cleared, rows)
               THEN /\ tasks' = Insert(cleared, rows)
                    /\ last' = Response("import_csv", <<>>, "success", file, NoRow)
               ELSE /\ tasks' = cleared
                    /\ last' = Response("import_csv", <<>>, "IntegrityError", file, NoRow)
            /\ UNCHANGED <<today, users, settings, inflight>>

\* POST /settings with one of the bodies `requests`
post_settings(requests) ==
    \E data \in requests :
        /\ ops < MaxOps
        /\ ops' = ops + 1
        /\ settings' = SavedStore(settings, data)
        /\ last' = Response("save_settings", <<>>, "success", data, NoRow)
        /\ UNCHANGED <<today, users, tasks, inflight>>

\* POST /settings
save_settings == post_settings(SaveRequests)

\* POST /settings, the custom-column editor
save_custom_columns == post_settings(ColumnRequests)

\* GET /settings
settings_page ==
    /\ ops < MaxOps
    /\ ops' = ops + 1
    /\ settings' = LoadedStore(settings)
    /\ last' = Response("load_settings", <<>>, "success", <<>>, NoRow)
    /\ UNCHANGED <<today, users, tasks, inflight>>

Next ==
    \/ Tick
    \/ register
    \/ admin_delete_user
    \/ add_new_task
    \/ update_action_plan
    \/ standup_update_action_plan
    \/ delete_task
    \/ restore_task
    \/ edit_task
    \/ import_csv
    \/ save_settings
    \/ settings_page

Spec == Init /\ [][Next]_vars

(***************************************************************************)
(* The id sequence of a long-lived table.  The behaviours of SpecIds start *)
(* from the table the admin's first SeedTasks add_task requests (each with *)
(* an empty form, on Day0) leave behind, and go on with the requests that  *)
(* add, delete and restore tasks and import files.                         *)
(***************************************************************************)
\* the most tasks whose numbers all fit the padded width
SeedTasks == 10 ^ IdWidth - 1

\* the table after n add_task requests with an empty form by the admin on Day0
SeededTable(n) ==
    [id \in {T(k) : k \in 1..n} |-> NewTask(id, EmptyDict, EmptyDict, AdminId, Day0)]

InitIds ==
    /\ today = Day0
    /\ users = {AdminId}
    /\ tasks = SeededTable(SeedTasks)
    /\ settings = LoadedStore([k \in {} |-> None])
    /\ ops = 0
    /\ inflight = [w \in Workers |-> Idle]
    /\ last = Response("add_task", T(SeedTasks), "success", EmptyDict, NoRow)

NextIds ==
    \/ add_new_task
    \/ delete_task
    \/ restore_task
    \/ import_csv

SpecIds == InitIds /\ [][NextIds]_vars

(***************************************************************************)
(* The settings store alone: the behaviours of SpecSettings save every     *)
(* shape of custom_columns and load the settings.                          *)
(***************************************************************************)
NextSettings ==
    \/ save_custom_columns
    \/ settings_page

SpecSettings == Init /\ [][NextSettings]_vars

(***************************************************************************)
(* parse_date_flexible alone.  In the behaviours of SpecDates the variable *)
(* `last` holds one call: its input, drawn by InitDates from the dates of  *)
(* DateSamples written in each of the DateFormats and from DateInputs,      *)
(* and, once parse_date has made the call, its result.                     *)
(***************************************************************************)
\* the year whose every day is a sample
SampleYear == 2024

\* dates written out and parsed back
DateSamples ==
    (ToOrdinal(SampleYear, 1, 1)..ToOrdinal(SampleYear, 12, 31))
        \cup {ToOrdinal(1, 1, 1), ToOrdinal(999, 12, 31), ToOrdinal(1900, 2, 28),
              ToOrdinal(2025, 2, 1), ToOrdinal(9999, 12, 31)}

\* the formats dates are written in: YYYY-MM-DD, DD/MM/YYYY, MM/DD/YYYY,
\* DD-MM-YYYY, YYYY/MM/DD
DateFormats ==
    << [sep |-> "-", y |-> 1, m |-> 2, d |-> 3],
       [sep |-> "/", y |-> 3, m |-> 2, d |-> 1],
       [sep |-> "/", y |-> 3, m |-> 1, d |-> 2],
       [sep |-> "-", y |-> 3, m |-> 2, d |-> 1],
       [sep |-> "/", y |-> 1, m |-> 2, d |-> 3] >>

\* date.strftime(fmt), fmt being an element of DateFormats: a four-digit year
\* and a two-digit month and day, joined by the separator
strftime(n, fmt) ==
    LET field(i) ==
            IF fmt.y = i THEN ZeroPad(YearOf(n), 4)
            ELSE IF fmt.m = i THEN ZeroPad(MonthOf(n), 2)
            ELSE ZeroPad(DayOf(n), 2)
    IN  field(1) \o <<fmt.sep>> \o field(2) \o <<fmt.sep>> \o field(3)

\* other inputs: texts no pattern reads, texts two patterns read, spreadsheet
\* serial numbers in and out of the range of a date, and absent values
DateInputs ==
    { StrVal(<<"2", "9", "/", "0", "2", "/", "2", "0", "2", "5">>), StrVal(<<"0", "1", "/", "0", "2", "/", "2", "0", "2", "5">>), StrVal(<<"0", "2", "/", "1", "3", "/", "2", "0", "2", "5">>),
      StrVal(<<"1", "3", "/", "0", "2", "/", "2", "0", "2", "5">>), StrVal(<<"2", "0", "2", "5", "-", "1", "3", "-", "0", "1">>), StrVal(<<"3", "1", "-", "1", "2", "-", "2", "0", "2", "5">>),
      StrVal(<<"2", "0", "2", "5", "/", "1", "/", "5">>), StrVal(<<"a", "b", "c">>), StrVal(<<>>), NoVal,
      NumVal(44000), NumVal(1), NumVal(2), NumVal(0), NumVal(0 - 1),
      NumVal(20250512), NumVal(0 - 700000) }

\* a call of parse_date_flexible: its input (for a written date, the date
\* and the index of the format in DateFormats), and the date it returned
DateCall(op, fmt, date, arg, result) ==
    [op |-> op, fmt |-> fmt, date |-> date, arg |-> arg, result |-> result]

InitDates ==
    /\ today = Day0
    /\ users = {AdminId}
    /\ tasks = [k \in {} |-> None]
    /\ settings = [k \in {} |-> None]
    /\ ops = 0
    /\ inflight = [w \in Workers |-> Idle]
    /\ \/ \E d \in DateSamples, i \in 1..Len(DateFormats) :
            last = DateCall("input", i, d, StrVal(strftime(d, DateFormats[i])), NoDate)
       \/ \E v \in DateInputs : last = DateCall("input", 0, NoDate, v, NoDate)

\* parse_date_flexible(date_str) is called with the input
parse_date ==
    /\ last.op = "input"
    /\ ops' = ops + 1
    /\ last' = [last EXCEPT !.op = "parse_date_flexible",
                            !.result = parse_date_flexible(last.arg)]
    /\ UNCHANGED <<today, users, tasks, settings, inflight>>

SpecDates == InitDates /\ [][parse_date]_vars

(***************************************************************************)
(* Requests served side by side.  In the behaviours of SpecConcurrent each *)
(* worker serves one request of the admin, add_task or update_action_plan  *)
(* of T001, in two steps: the statements up to the queries that read the   *)
(* table, and db.session.commit(), which writes.  The steps of the two     *)
(* workers interleave; each query sees what has been committed.            *)
(***************************************************************************)
\* a request whose queries have run and whose commit is to come: `row` is the
\* Task object the session holds
Pending(op, arg, row) ==
    [pc |-> "commit", op |-> op, arg |-> arg, row |-> row, status |-> "none"]

\* add_task up to db.session.add(task)
begin_add_task ==
    \E w \in Workers, data \in AddRequests :
        LET loaded == load_settings(settings)
            cols == CustomColumnNames(loaded) \cap DOMAIN data
            custom_fields == [col \in cols |-> data[col]]
        IN  /\ inflight[w].pc = "idle"
            /\ inflight' = [inflight EXCEPT ![w] =
                    Pending("add_task", data,
                            NewTask(NextId(tasks), data, custom_fields, AdminId, today))]
            /\ settings' = LoadedStore(settings)
            /\ UNCHANGED <<today, users, tasks, ops, last>>

\* db.session.commit() of add_task: the INSERT
commit_add_task ==
    \E w \in Workers :
        LET task == inflight[w].row
        IN  /\ inflight[w].pc = "commit"
            /\ inflight[w].op = "add_task"
            /\ ops' = ops + 1
            /\ IF CanInsert(tasks, <<task>>)
               THEN /\ tasks' = Insert(tasks, <<task>>)
                    /\ inflight' = [inflight EXCEPT ![w].pc = "done", ![w].status = "success"]
                    /\ last' = Response("add_task", task.id, "success", inflight[w].arg, NoRow)
               ELSE /\ tasks' = tasks
                    /\ inflight' = [inflight EXCEPT ![w].pc = "done",
                                                    ![w].status = "IntegrityError"]
                    /\ last' = Response("add_task", task.id, "IntegrityError", <<>>, NoRow)
            /\ UNCHANGED <<today, users, settings>>

\* update_action_plan of T001 up to the assignments to the task it loaded
begin_update_action_plan ==
    \E w \in Workers, text \in PlanTexts :
        LET row_id == strip(T(1))
            new_plan == strip(text)
        IN  /\ inflight[w].pc = "idle"
            /\ Found(tasks, row_id)
            /\ inflight' = [inflight EXCEPT ![w] =
                    Pending("update_action_plan", text,
                            [tasks[row_id] EXCEPT
                                !.current_action_plan = new_plan,
                                !.action_plan_history =
                                    DirectHistory(tasks[row_id].action_plan_history,
                                                  new_plan, today)])]
            /\ UNCHANGED <<today, users, tasks, settings, ops, last>>

\* db.session.commit() of update_action_plan: the UPDATE of the two columns
\* that were assigned
commit_update_action_plan ==
    \E w \in Workers :
        LET task == inflight[w].row
        IN  /\ inflight[w].pc = "commit"
            /\ inflight[w].op = "update_action_plan"
            /\ ops' = ops + 1
            /\ tasks' = [tasks EXCEPT
                    ![task.id].current_action_plan = task.current_action_plan,
                    ![task.id].action_plan_history = task.action_plan_history]
            /\ inflight' = [inflight EXCEPT ![w].pc = "done", ![w].status = "success"]
            /\ last' = Response("update_action_plan", task.id, "success", inflight[w].arg,
                                tasks[task.id])
            /\ UNCHANGED <<today, users, settings>>

\* one task stored, the settings loaded, both workers idle
InitConcurrent ==
    /\ today = Day0
    /\ users = {AdminId}
    /\ tasks = SeededTable(1)
    /\ settings = LoadedStore([k \in {} |-> None])
    /\ ops = 0
    /\ inflight = [w \in Workers |-> Idle]
    /\ last = Response("add_task", T(1), "success", EmptyDict, NoRow)

NextConcurrent ==
    \/ begin_add_task
    \/ commit_add_task
    \/ begin_update_action_plan
    \/ commit_update_action_plan

SpecConcurrent == InitConcurrent /\ [][NextConcurrent]_vars

(***************************************************************************)
(* Read side: the lists the views are built from                           *)
(***************************************************************************)
\* rows of Task.query.filter_by(user_id=...).filter(Task.status != "Deleted"):
\* the comparison is made by the database, where NULL != 'Deleted' is not true
ActiveRows(tb, user) ==
    {id \in DOMAIN tb : tb[id].user_id = user /\ tb[id].status # None /\ tb[id].status # "Deleted"}

\* rows of Task.query.filter_by(user_id=..., status="Deleted")
ArchivedRows(tb, user) ==
    {id \in DOMAIN tb : tb[id].user_id = user /\ tb[id].status = "Deleted"}

\* load_tasks() for current_user: the dict of each row, by row
load_tasks(current_user) ==
    IF current_user # Anonymous
    THEN [id \in ActiveRows(tasks, current_user) |-> to_dict(tasks[id], today)]
    ELSE [id \in {} |-> EmptyDict]

\* load_archived_tasks() for current_user
load_archived_tasks(current_user) ==
    IF current_user # Anonymous
    THEN [id \in ArchivedRows(tasks, current_user) |-> to_dict(tasks[id], today)]
    ELSE [id \in {} |-> EmptyDict]

\* the keys of a serialized task whose values are texts
TextKeys ==
    {"ID", "Created Date", "Due Date", "Status Update Date", "Current Action Plan",
     "Action Plan History"}

\* the keys of a serialized task whose values are booleans
FlagKeys == {"is_overdue", "due_soon", "due_today"}

\* the cell csv.DictWriter writes for a missing key (restval '')
EmptyCell(k) == IF k \in TextKeys THEN <<>> ELSE ""

\* the cell csv.DictWriter writes for the value v of key k: None is written as
\* the empty string and a boolean as its str()
CsvCell(k, v) ==
    IF k \in TextKeys THEN (IF v = NoneText THEN <<>> ELSE v)
    ELSE IF k \in FlagKeys THEN (IF v THEN "True" ELSE "False")
    ELSE IF v = None THEN "" ELSE v

\* GET /export_csv for current_user, `first` being the task the query returns
\* first: the header is the keys of that task, and a task with a key that is
\* not in the header makes DictWriter raise ValueError
export_csv(current_user, first) ==
    LET listed == load_tasks(current_user)
    IN  IF DOMAIN listed = {}
        THEN [status |-> "error", headers |-> {}, rows |-> listed]
        ELSE IF \E id \in DOMAIN listed : ~(DOMAIN listed[id] \subseteq DOMAIN listed[first])
        THEN [status |-> "ValueError", headers |-> {}, rows |-> [id \in {} |-> EmptyDict]]
        ELSE [status |-> "success",
              headers |-> DOMAIN listed[first],
              rows |-> [id \in DOMAIN listed |->
                          [k \in DOMAIN listed[first] |->
                              IF k \in DOMAIN listed[id] THEN CsvCell(k, listed[id][k])
                              ELSE EmptyCell(k)]]]

\* round(completed / total * 100, 1) cut off below the tenth instead of rounded
Round1Truncating(completed, total) == (completed * 1000) \div total

\* round(completed / total * 100, 1), in tenths of a percent (333 is 33.3): the
\* nearest tenth, and the even one of two that are equally near
Round1(completed, total) ==
    LET base == (completed * 1000) \div total
        rest == (completed * 1000) % total
    IN  IF 2 * rest > total THEN base + 1
        ELSE IF 2 * rest < total THEN base
        ELSE IF base % 2 = 0 THEN base ELSE base + 1

\* analytics_data['tasks_by_...'] for the key of one dimension: the groups of
\* the listed tasks by task.get(key, 'Unknown'), each with its counts and rate
tasks_by(listed, key) ==
    [g \in {Get(listed[id], key, "Unknown") : id \in DOMAIN listed} |->
        LET members == {id \in DOMAIN listed : Get(listed[id], key, "Unknown") = g}
            total == Cardinality(members)
            completed ==
                Cardinality({id \in members : Get(listed[id], "Status", None) = "Completed"})
        IN  [total |-> total,
             completed |-> completed,
             completion_rate |-> IF total > 0 THEN Round1(completed, total) ELSE 0]]

\* the analytics_data of GET /analytics for current_user
analytics(current_user) ==
    LET listed == load_tasks(current_user)
        count(status) ==
            Cardinality({id \in DOMAIN listed : Get(listed[id], "Status", None) = status})
        total_tasks == Cardinality(DOMAIN listed)
    IN  [ total_tasks |-> total_tasks,
          completed_tasks |-> count("Completed"),
          in_progress_tasks |-> count("In Progress"),
          not_started_tasks |-> count("Not Started"),
          on_hold_tasks |-> count("On Hold"),
          tasks_by_type |-> tasks_by(listed, "Type"),
          tasks_by_category |-> tasks_by(listed, "Category"),
          tasks_by_product |-> tasks_by(listed, "Product"),
          tasks_by_module |-> tasks_by(listed, "Module"),
          tasks_by_priority |-> tasks_by(listed, "Priority"),
          overall_completion_rate |->
              IF total_tasks > 0 THEN Round1(count("Completed"), total_tasks) ELSE 0 ]

(***************************************************************************)
(* Claims                                                                  *)
(***************************************************************************)
\* this step handles a request of handler op
Handled(op) == ops' = ops + 1 /\ last'.op = op

\* the three derived flags of a serialized task
Flags(d) == {k \in {"is_overdue", "due_today", "due_soon"} : d[k] # FALSE}

\* C1: in every reachable state the serialized form of a task whose stored
\* status is "Completed" has is_overdue, due_today and due_soon all false,
\* whatever its due date and its custom fields.
C1_CompletedNeverFlagged ==
    \A id \in DOMAIN tasks :
        tasks[id].status = "Completed" => Flags(to_dict(tasks[id], today)) = {}

\* C2: for a task whose status is not "Completed", to_dict gives is_overdue iff
\* due_date < today, due_today iff due_date = today, due_soon iff the due date
\* is 1 to 3 days ahead; at most one flag is true, and none without a due date.
C2_FlagsFollowDueDate ==
    \A id \in DOMAIN tasks :
        LET t == tasks[id]
            d == to_dict(t, today)
        IN  t.status # "Completed" =>
                /\ d["is_overdue"] = (t.due_date # NoDate /\ t.due_date < today)
                /\ d["due_today"] = (t.due_date # NoDate /\ t.due_date = today)
                /\ d["due_soon"] = (t.due_date # NoDate /\ 0 < t.due_date - today
                                    /\ t.due_date - today <= 3)
                /\ Cardinality(Flags(d)) <= 1
                /\ (t.due_date = NoDate => Flags(d) = {})

\* the operations on tasks that C3 lists
TaskOps ==
    {"add_task", "update_action_plan", "standup_update_action_plan", "edit_task",
     "delete_task", "restore_task"}

\* C3: across the task operations a task's action_plan_history is append-only
\* and newest-first: the history held before an operation is a suffix of the
\* history held after it, so no earlier entry is removed, rewritten or
\* reordered.  The transcripts are compared as every append leaves them,
\* trimmed of surrounding whitespace.
C3_HistoryAppendOnly ==
    [][(\E op \in TaskOps : Handled(op)) =>
        \A id \in (DOMAIN tasks) \cap (DOMAIN tasks') :
            IsSuffix(strip(OrEmpty(tasks[id].action_plan_history)),
                     strip(OrEmpty(tasks'[id].action_plan_history)))]_vars

\* C4: standup rollover on an existing task: if the current plan is non-blank,
\* an entry tagged STANDUP with today's ISO date and holding the outgoing plan
\* is prepended to the history as its newest entry; if the current plan is
\* absent or blank the history is left as it is; either way
\* current_action_plan becomes the trimmed new text, and the new text is not
\* written to the history (the history is the entry and the old transcript).
C4_StandupRollover ==
    [][(Handled("standup_update_action_plan") /\ last'.id \in DOMAIN tasks) =>
        LET old == tasks[last'.id]
            new == tasks'[last'.id]
            outgoing == strip(OrEmpty(old.current_action_plan))
            entry == <<"[", "S", "T", "A", "N", "D", "U", "P", SP>> \o isoformat(today)
                     \o <<"]", NL>> \o outgoing
        IN  /\ last'.status = "success"
            /\ new.current_action_plan = strip(last'.arg)
            /\ IF outgoing # <<>>
               THEN /\ IsPrefix(entry, new.action_plan_history)
                    /\ new.action_plan_history =
                          strip(entry \o <<NL, NL>> \o OrEmpty(old.action_plan_history))
               ELSE new.action_plan_history = old.action_plan_history]_vars

\* C4 witness: a rollover has archived a non-blank plan on top of a transcript
\* that already had an entry
C4_Witness ==
    /\ last.op = "standup_update_action_plan"
    /\ last.status = "success"
    /\ last.id \in DOMAIN tasks
    /\ strip(OrEmpty(last.before.current_action_plan)) # <<>>
    /\ OrEmpty(last.before.action_plan_history) # <<>>
    /\ IsPrefix(<<"[", "S", "T", "A", "N", "D", "U", "P">>, tasks[last.id].action_plan_history)
    /\ tasks[last.id].action_plan_history # last.before.action_plan_history

\* C5: direct update on an existing task sets current_action_plan to the
\* trimmed new text and prepends to the history an untagged entry dated today
\* holding that new text, followed by a blank line and the previous history;
\* the outgoing plan is not archived, and the resulting history has no leading
\* or trailing whitespace.
C5_DirectUpdate ==
    [][(Handled("update_action_plan") /\ last'.id \in DOMAIN tasks) =>
        LET old == tasks[last'.id]
            new == tasks'[last'.id]
            text == strip(last'.arg)
            stamp == <<"[">> \o isoformat(today) \o <<"]">>
        IN  /\ last'.status = "success"
            /\ new.current_action_plan = text
            /\ IsPrefix(strip(stamp \o <<NL>> \o text), new.action_plan_history)
            /\ new.action_plan_history =
                  strip(stamp \o <<NL>> \o text \o <<NL, NL>> \o OrEmpty(old.action_plan_history))
            /\ new.action_plan_history = strip(new.action_plan_history)]_vars

\* C5 witness: a direct update with a non-blank text has been made on a task
\* that had a transcript and another current plan
C5_Witness ==
    /\ last.op = "update_action_plan"
    /\ last.status = "success"
    /\ last.id \in DOMAIN tasks
    /\ strip(last.arg) # <<>>
    /\ strip(OrEmpty(last.before.action_plan_history)) # <<>>
    /\ strip(OrEmpty(last.before.current_action_plan)) \notin {<<>>, strip(last.arg)}
    /\ tasks[last.id].current_action_plan = strip(last.arg)

C8_ActiveXorArchived ==
    \A u \in users, id \in DOMAIN tasks :
        tasks[id].user_id = u =>
            /\ (id \in DOMAIN load_archived_tasks(u)) = (tasks[id].status = "Deleted")
            /\ (id \in DOMAIN load_tasks(u)) = (id \notin DOMAIN load_archived_tasks(u))

\* the number an id ends in
SuffixNo(id) == DigitsVal(Tail(id))

\* C9: add_task by a logged-in user stores the new task under the next
\* sequential id: T followed by the number, zero-padded to at least 3 digits,
\* one greater than the largest numeric suffix among the stored ids, an id no
\* stored task holds.
C9_NextSequentialId ==
    [][(Handled("add_task") /\ last'.status # "AttributeError") =>
        LET n == SuffixNo(last'.id)
        IN  /\ last'.status = "success"
            /\ last'.id \notin DOMAIN tasks
            /\ last'.id \in DOMAIN tasks'
            /\ last'.id = <<"T">> \o ZeroPad(n, 3)
            /\ \A id \in DOMAIN tasks : SuffixNo(id) < n
            /\ n = 1 \/ \E id \in DOMAIN tasks : SuffixNo(id) = n - 1]_vars

\* C10: save_settings(data) sets the stored value of every key in data and
\* leaves the stored value of every key not in data unchanged, custom_columns
\* included when data does not mention it.
C10_SaveIsKeyLevel ==
    [][Handled("save_settings") =>
        /\ \A k \in DOMAIN last'.arg :
            /\ k \in DOMAIN settings'
            /\ k # "custom_columns" => settings'[k] = last'.arg[k]
            /\ k = "custom_columns" =>
                    /\ Len(settings'[k].items) = Len(last'.arg[k].items)
                    /\ \A i \in 1..Len(last'.arg[k].items) :
                            settings'[k].items[i].name = last'.arg[k].items[i].name
        /\ \A k \in (DOMAIN settings) \ (DOMAIN last'.arg) :
            /\ k \in DOMAIN settings'
            /\ settings'[k] = settings[k]]_vars

\* C11: whatever shape of custom_columns earlier save_settings calls have
\* stored (bare strings, records with or without a type, a mixed list, a value
\* that is not a list), load_settings returns custom_columns as a list whose
\* every element is a record with a name and a type; and after
\* save({custom_columns: ["Owner"]}) it is [{name: "Owner", type: "text"}].
C11_ColumnsNormalized ==
    LET cc == load_settings(settings)["custom_columns"]
    IN  /\ cc.list
        /\ \A i \in 1..Len(cc.items) :
                ~cc.items[i].isstr /\ cc.items[i].name # None /\ cc.items[i].type # None
        /\ (last.op = "save_settings"
                /\ last.arg = ("custom_columns" :> List(<<BareCol("Owner")>>)))
            => cc = List(<<Col("Owner", "text")>>)

\* the keys of the five option lists
OptionKeys ==
    {"status_options", "type_options", "priority_options", "product_options",
     "module_options"}

\* the hard-coded default of an option key
DefaultOf(k) == defaults[CHOOSE i \in 1..Len(defaults) : defaults[i][1] = k][2]

\* C12: from any stored settings, load_settings returns a mapping with all
\* five option-list keys; a key absent from storage is returned with its
\* non-empty default and written to storage, a key that was stored keeps its
\* value, and a second load_settings right after returns the same mapping and
\* writes nothing.
C12_DefaultsPersisted ==
    [][Handled("load_settings") =>
        LET returned == load_settings(settings)
        IN  /\ OptionKeys \subseteq DOMAIN returned
            /\ OptionKeys \subseteq DOMAIN settings'
            /\ \A k \in OptionKeys :
                    IF k \in DOMAIN settings
                    THEN returned[k] = settings[k] /\ settings'[k] = settings[k]
                    ELSE /\ returned[k] = DefaultOf(k)
                         /\ settings'[k] = DefaultOf(k)
                         /\ DefaultOf(k).items # <<>>
            /\ load_settings(settings') = returned
            /\ LoadedStore(settings') = settings']_vars

\* C12 witness: a load has followed a save of priority_options alone, so the
\* store holds the saved list beside the four defaults the load wrote
C12_Witness ==
    /\ ops = 2
    /\ last.op = "load_settings"
    /\ settings["priority_options"] = List(<<"P1">>)
    /\ \A k \in OptionKeys \ {"priority_options"} : settings[k] = DefaultOf(k)

\* the handlers that look a task up by the id of the request
LookupOps ==
    {"update_action_plan", "standup_update_action_plan", "delete_task", "restore_task",
     "edit_task"}

\* C13: update_action_plan, standup_update_action_plan, delete_task,
\* restore_task and edit_task, called with an id that matches no stored task,
\* answer with a structured error (no exception) and leave every task and
\* every stored setting unchanged.
C13_NotFoundIsError ==
    [][((\E op \in LookupOps : Handled(op)) /\ last'.id \notin DOMAIN tasks) =>
        /\ last'.status = "error"
        /\ tasks' = tasks
        /\ settings' = settings]_vars

\* C13 witness: edit_task has answered with an error for an id no task has,
\* while another task is stored
C13_Witness ==
    /\ last.op = "edit_task"
    /\ last.status = "error"
    /\ last.id \notin DOMAIN tasks
    /\ DOMAIN tasks # {}

\* the text columns edit_task assigns, each with its request key
EditableTexts ==
    { <<"type", "Type">>, <<"product", "Product">>, <<"module", "Module">>,
      <<"description", "Description">>, <<"status", "Status">>, <<"priority", "Priority">>,
      <<"action_plan_status", "Action Plan Status">>,
      <<"current_action_plan", "Current Action Plan">>,
      <<"action_plan_history", "Action Plan History">>, <<"category", "Category">> }

\* the date columns edit_task assigns, each with its request key
EditableDates ==
    { <<"created_date", "Created Date">>, <<"due_date", "Due Date">>,
      <<"status_update_date", "Status Update Date">> }

\* C14: edit_task on an existing task is a field-level partial edit: it
\* changes exactly the standard fields whose names are in the request, and the
\* custom fields that are both in the request and in the custom-column schema,
\* and leaves every other field of that task and every other task unchanged.
C14_EditIsPartial ==
    [][(Handled("edit_task") /\ last'.id \in DOMAIN tasks) =>
        LET old == tasks[last'.id]
            new == tasks'[last'.id]
            data == last'.arg
            schema == CustomColumnNames(load_settings(settings))
        IN  /\ last'.status = "success"
            /\ DOMAIN tasks' = DOMAIN tasks
            /\ \A id \in DOMAIN tasks \ {last'.id} : tasks'[id] = tasks[id]
            /\ \A f \in EditableTexts :
                    new[f[1]] = IF f[2] \in DOMAIN data THEN data[f[2]] ELSE old[f[1]]
            /\ \A f \in EditableDates :
                    new[f[1]] = IF f[2] \in DOMAIN data THEN parse_date_flexible(data[f[2]])
                                ELSE old[f[1]]
            /\ \A f \in {"id", "requester", "business_unit", "user_id"} : new[f] = old[f]
            /\ CustomDict(new.custom_fields) =
                    Update(CustomDict(old.custom_fields),
                           [col \in schema \cap DOMAIN data |-> data[col]])]_vars

\* C15: CSV import followed by CSV export is a round trip: importing a file of
\* task rows and then exporting gives the same set of task ids with the same
\* field values, and no task that existed before the import remains.
C15_ImportExportRoundTrip ==
    [][(Handled("import_csv") /\ last'.arg.csv) =>
        LET rows == last'.arg.rows
            ids == {strip(rows[i]["ID"]) : i \in 1..Len(rows)}
        IN  /\ last'.status = "success"
            /\ \A id \in DOMAIN tasks : id \notin ids => id \notin DOMAIN tasks'
            /\ \E u \in users :
                    IF ids = {} THEN DOMAIN load_tasks(u)' = {}
                    ELSE \A first \in ids :
                            LET out == export_csv(u, first)'
                            IN  /\ out.status = "success"
                                /\ DOMAIN out.rows = ids
                                /\ \A i \in 1..Len(rows) : \A k \in DOMAIN rows[i] :
                                        /\ k \in out.headers
                                        /\ out.rows[strip(rows[i]["ID"])][k] = rows[i][k]]_vars

\* C16: for each of the five formats (YYYY-MM-DD, DD/MM/YYYY, MM/DD/YYYY,
\* DD-MM-YYYY, YYYY/MM/DD) and every valid calendar date d, formatting d in
\* that format and parsing the text with parse_date_flexible returns d.
C16_RoundTrip ==
    (last.op = "parse_date_flexible" /\ last.fmt \in 1..Len(DateFormats)) =>
        last.result = last.date

\* C16 as amended: the round trip holds for YYYY-MM-DD, DD/MM/YYYY, DD-MM-YYYY
\* and YYYY/MM/DD; for MM/DD/YYYY it holds when the day is greater than 12 or
\* equal to the month, and otherwise the text is read day first, giving the
\* date with day and month exchanged.
C16_RoundTripButMonthFirst ==
    (last.op = "parse_date_flexible" /\ last.fmt \in 1..Len(DateFormats)) =>
        LET d == last.date
        IN  IF last.fmt = 3 /\ DayOf(d) <= 12 /\ DayOf(d) # MonthOf(d)
            THEN last.result = ToOrdinal(YearOf(d), DayOf(d), MonthOf(d))
            ELSE last.result = d

\* C16 witness: a date with a day up to 12 that differs from its month,
\* written as MM/DD/YYYY, has been parsed
C16_Witness ==
    /\ last.op = "parse_date_flexible"
    /\ last.fmt = 3
    /\ DayOf(last.date) <= 12
    /\ DayOf(last.date) # MonthOf(last.date)
    /\ last.result # NoDate
    /\ last.result # last.date

\* the patterns, by index in `formats`, that read the text
Reading(text) == {i \in 1..Len(formats) : strptime(text, formats[i]) # NoDate}

\* C17: parse_date_flexible never raises: for a text it returns the date given
\* by the first pattern, in the order YYYY-MM-DD, DD/MM/YYYY, MM/DD/YYYY,
\* DD-MM-YYYY, YYYY/MM/DD, that yields a valid date (so a/b/YYYY with a and b
\* up to 12 is day a, month b); for a number that matches no pattern it
\* returns 1900-01-01 plus (n - 2) days; and it returns no date when every
\* attempt fails, as for 29/02/2025.
C17_FirstPatternWins ==
    last.op = "parse_date_flexible" =>
        LET v == last.arg
            text == StrOf(v)
            first == CHOOSE i \in Reading(text) : \A j \in Reading(text) : i <= j
            serial == ExcelEpoch + v.n - 2
        IN  /\ last.result \in 0..MaxOrdinal
            /\ (Truthy(text) /\ Reading(text) # {}) =>
                    last.result = strptime(text, formats[first])
            /\ (v.isnum /\ Reading(text) = {}) =>
                    last.result = IF serial \in 1..MaxOrdinal THEN serial ELSE NoDate
            /\ (~v.isnum /\ (~Truthy(text) \/ Reading(text) = {})) => last.result = NoDate
            /\ v = StrVal(<<"0", "1", "/", "0", "2", "/", "2", "0", "2", "5">>) => last.result = ToOrdinal(2025, 2, 1)
            /\ v = StrVal(<<"2", "9", "/", "0", "2", "/", "2", "0", "2", "5">>) => last.result = NoDate
            /\ v = NumVal(44000) => last.result = ToOrdinal(2020, 6, 18)

\* the five dimensions of the analytics: the key of the snapshot, the key of
\* a serialized task, and the column of the task
Dimensions ==
    { [group |-> "tasks_by_type", key |-> "Type", column |-> "type"],
      [group |-> "tasks_by_category", key |-> "Category", column |-> "category"],
      [group |-> "tasks_by_product", key |-> "Product", column |-> "product"],
      [group |-> "tasks_by_module", key |-> "Module", column |-> "module"],
      [group |-> "tasks_by_priority", key |-> "Priority", column |-> "priority"] }

\* C18: in the analytics snapshot a task whose type, category, product, module
\* or priority is missing (never set) is counted in that dimension under the
\* group key "Unknown"; no group is keyed by an empty or null value.
C18_MissingIsUnknown ==
    \A u \in users : \A dim \in Dimensions :
        LET groups == analytics(u)[dim.group]
        IN  /\ (\E id \in ActiveRows(tasks, u) : tasks[id][dim.column] = None)
                    => "Unknown" \in DOMAIN groups
            /\ None \notin DOMAIN groups
            /\ "" \notin DOMAIN groups

\* the sum of the totals of the groups with keys in `keys`
RECURSIVE SumTotals(_, _)
SumTotals(groups, keys) ==
    IF keys = {} THEN 0
    ELSE LET g == CHOOSE k \in keys : TRUE
         IN  groups[g].total + SumTotals(groups, keys \ {g})

\* rate, in tenths of a percent, is completed / total * 100 rounded to a tenth
IsRate(rate, completed, total) ==
    LET diff == rate * total - completed * 1000
    IN  2 * (IF diff < 0 THEN 0 - diff ELSE diff) <= total

\* C19: for every collection of active tasks, the empty one included, the
\* snapshot has total_tasks equal to the number of active tasks; in each of
\* the five dimensions a group's total is the number of active tasks with that
\* value and its completed the number of those with status "Completed" (so
\* completed <= total and the totals sum to total_tasks); completion_rate is
\* round(completed / total * 100, 1); and overall_completion_rate is 0 when
\* total_tasks is 0.
C19_AnalyticsCounts ==
    \A u \in users :
        LET listed == load_tasks(u)
            a == analytics(u)
            done == {id \in DOMAIN listed : listed[id]["Status"] = "Completed"}
        IN  /\ a.total_tasks = Cardinality(ActiveRows(tasks, u))
            /\ \A dim \in Dimensions :
                    LET groups == a[dim.group]
                    IN  /\ \A g \in DOMAIN groups :
                                LET with == {id \in DOMAIN listed : listed[id][dim.key] = g}
                                IN  /\ groups[g].total = Cardinality(with)
                                    /\ groups[g].completed = Cardinality(with \cap done)
                                    /\ groups[g].completed <= groups[g].total
                                    /\ groups[g].total > 0
                                    /\ IsRate(groups[g].completion_rate,
                                              groups[g].completed, groups[g].total)
                        /\ SumTotals(groups, DOMAIN groups) = a.total_tasks
            /\ IF a.total_tasks = 0
               THEN a.overall_completion_rate = 0 /\ \A dim \in Dimensions : DOMAIN a[dim.group] = {}
               ELSE IsRate(a.overall_completion_rate, Cardinality(done), a.total_tasks)

\* C19 witness: a user has three active tasks, two of them completed, all in
\* one group of the type dimension, whose rate is 66.7
C19_Witness ==
    \E u \in users :
        /\ analytics(u).total_tasks = 3
        /\ analytics(u).completed_tasks = 2
        /\ \E g \in DOMAIN analytics(u).tasks_by_type :
                analytics(u).tasks_by_type[g] =
                    [total |-> 3, completed |-> 2, completion_rate |-> 667]

\* the table after the request r is served alone on the table tb
ServedAlone(tb, r) ==
    IF r.op = "add_task"
    THEN Insert(tb, << NewTask(NextId(tb), r.arg,
                               [col \in CustomColumnNames(load_settings(settings))
                                            \cap DOMAIN r.arg |-> r.arg[col]],
                               AdminId, today) >>)
    ELSE [tb EXCEPT ![T(1)].current_action_plan = strip(r.arg),
                    ![T(1)].action_plan_history =
                        DirectHistory(tb[T(1)].action_plan_history, strip(r.arg), today)]

\* C20: concurrent requests against different records do not interact: when
\* two requests that touch different tasks run interleaved (two add_task
\* requests, or an add_task beside an update of another task), the final state
\* is the one some serial order of the two would give, both new tasks are
\* stored under distinct ids and neither request fails.
C20_DifferentRecordsSerialize ==
    (/\ \A w \in Workers : inflight[w].pc = "done"
     /\ \E w \in Workers : inflight[w].op = "add_task") =>
        /\ \A w \in Workers : inflight[w].status = "success"
        /\ \A w \in Workers :
                inflight[w].op = "add_task" =>
                    /\ inflight[w].row.id \in DOMAIN tasks
                    /\ \A v \in Workers \ {w} : inflight[v].row.id # inflight[w].row.id
        /\ \E w \in Workers : \E v \in Workers \ {w} :
                tasks = ServedAlone(ServedAlone(SeededTable(1), inflight[w]), inflight[v])

\* the requests on tasks that C21 lists
OwnerOps == TaskOps \cup {"import_csv"}

\* the row of the task k is in the table after the step as it was before it
Untouched(k) == k \in DOMAIN tasks' /\ tasks'[k] = tasks[k]

\* C21: a task request made by one user never changes or removes a task owned
\* by another: for every account A, a step that handles add_task, edit_task,
\* delete_task, restore_task, update_action_plan, standup_update_action_plan
\* or import_csv leaves every task whose owner is not A with the same fields
\* and status.  The requester A ranges over all accounts because none of
\* these handlers but add_task reads current_user, and add_task only writes
\* it into the row it inserts: the step a request makes is the same whoever
\* is logged in.
C21_OwnTasksOnly ==
    [][\A A \in users :
        (\E op \in OwnerOps : Handled(op)) =>
            \A k \in DOMAIN tasks : tasks[k].user_id # A => Untouched(k)]_vars

\* C22: in every reachable state each stored task is owned by an existing
\* user: its user_id is the id of a row of the users table, and so is never
\* the missing owner of a Task built without one (add_task writes the
\* requester's id, import_csv stores no row it built without an owner, and
\* admin_delete_user removes a user's tasks with the user); the admin's own
\* account, which admin_delete_user refuses to delete, is always there.
C22_TasksHaveOwners ==
    /\ \A k \in DOMAIN tasks : tasks[k].user_id \in users
    /\ NoUser \notin users
    /\ AdminId \in users

\* C22 witness: the admin has deleted another user who owned at least one
\* task; the account is gone and so is every task it owned.
C22_Witness ==
    /\ last.op = "admin_delete_user"
    /\ last.status = "success"
    /\ last.arg \notin users
    /\ last.before.tasks # {}
    /\ last.before.tasks \cap DOMAIN tasks = {}

====
